---- MODULE Spec2Model ----
(***************************************************************************)
(* Model of server/services/comprehensiveTaxCalculator.py: the calculator  *)
(* object ComprehensiveCanadianTaxCalculator2024 with its tables, and the  *)
(* callers that hand it input records and receive a TaxResult.             *)
(*                                                                         *)
(* Arithmetic.  The program computes on floats; the model computes on      *)
(* exact fixed-point integers:                                             *)
(*   - amounts of income (the input fields, total/net/taxable income, the  *)
(*     AMT base, the split income) are whole dollars;                      *)
(*   - rates are in 1/10000 (0.0506 is 506);                               *)
(*   - every tax, credit, contribution and clawback is in 1/10000 dollar   *)
(*     (Scale), the product of a dollar amount and a rate;                 *)
(*   - net_income_after_tax is whole dollars and a fraction in 1/10000     *)
(*     dollar; average_tax_rate and marginal_tax_rate, percentages, are in *)
(*     1/10000 percent, the average rate truncated.                        *)
(* The input sets hold amounts on which the dividend gross-up (x 1.38) and *)
(* the 50% rates give whole dollars.  Two products are finer than 1/10000  *)
(* dollar (the surtax on provincial tax and the QPIP premium, rate         *)
(* 0.00494); they are truncated to that unit.                              *)
(***************************************************************************)
EXTENDS Integers, Sequences, FiniteSets, TLC

VARIABLES calculator, pc, request, result

vars == <<calculator, pc, request, result>>

\* 1/10000 dollar units per dollar
Scale == 10000

\* float('inf') as a bracket's max_income
Inf == 2147483647

Max(a, b) == IF a >= b THEN a ELSE b

Min(a, b) == IF a <= b THEN a ELSE b

\* x * m / d truncated to an integer, for x >= 0, without the product x * m
MulDiv(x, m, d) == (x \div d) * m + ((x % d) * m) \div d

TaxBracket(min_income, max_income, rate) ==
    [min_income |-> min_income, max_income |-> max_income, rate |-> rate]

\* a surtax tier: rate (in percent) on provincial tax over threshold (dollars)
SurtaxTier(rate, threshold) == [rate |-> rate, threshold |-> threshold]

\* federal_brackets with the thresholds of the 2023 tax year
federal_brackets_2023 ==
    << TaxBracket(0, 53359, 1500),
       TaxBracket(53359, 106717, 2050),
       TaxBracket(106717, 165430, 2600),
       TaxBracket(165430, 235675, 2900),
       TaxBracket(235675, Inf, 3300) >>

federal_brackets ==
    << TaxBracket(0, 55867, 1500),
       TaxBracket(55867, 111733, 2050),
       TaxBracket(111733, 173205, 2600),
       TaxBracket(173205, 246752, 2900),
       TaxBracket(246752, Inf, 3300) >>

federal_amounts ==
    [ basic_personal |-> 15705,
      spouse_equivalent |-> 15705,
      dependant |-> 2616,
      age_amount |-> 8790,
      age_threshold |-> 42335,
      pension_amount |-> 2000,
      disability_amount |-> 9428,
      tuition_rate |-> 1500,
      medical_rate |-> 1500,
      charitable_rate_low |-> 1500,
      charitable_rate_high |-> 2900,
      dividend_gross_up |-> 138 ]

\* provincial_data: the 'brackets' and 'surtax' entries of every province
\* ('amounts' is read into prov_amounts at line 964 and never used);
\* 'surtax': False is the empty sequence of tiers
provincial_data ==
    [ AB |-> [ brackets |-> << TaxBracket(0, Inf, 1000) >>, surtax |-> << >> ],
      BC |-> [ brackets |-> << TaxBracket(0, 47937, 506),
                               TaxBracket(47937, 95875, 770),
                               TaxBracket(95875, 110076, 1050),
                               TaxBracket(110076, 133664, 1229),
                               TaxBracket(133664, 181232, 1470),
                               TaxBracket(181232, Inf, 2045) >>,
                 surtax |-> << >> ],
      MB |-> [ brackets |-> << TaxBracket(0, 47000, 1080),
                               TaxBracket(47000, 100000, 1275),
                               TaxBracket(100000, Inf, 1740) >>,
                 surtax |-> << >> ],
      NB |-> [ brackets |-> << TaxBracket(0, 49958, 940),
                               TaxBracket(49958, 99916, 1400),
                               TaxBracket(99916, 185064, 1600),
                               TaxBracket(185064, Inf, 1950) >>,
                 surtax |-> << >> ],
      NL |-> [ brackets |-> << TaxBracket(0, 43198, 870),
                               TaxBracket(43198, 86395, 1450),
                               TaxBracket(86395, 154244, 1580),
                               TaxBracket(154244, 215943, 1780),
                               TaxBracket(215943, Inf, 1980) >>,
                 surtax |-> << >> ],
      NS |-> [ brackets |-> << TaxBracket(0, 29590, 879),
                               TaxBracket(29590, 59180, 1495),
                               TaxBracket(59180, 93000, 1667),
                               TaxBracket(93000, 150000, 1750),
                               TaxBracket(150000, Inf, 2100) >>,
                 surtax |-> << >> ],
      NT |-> [ brackets |-> << TaxBracket(0, 50597, 590),
                               TaxBracket(50597, 101198, 860),
                               TaxBracket(101198, 164525, 1220),
                               TaxBracket(164525, 239229, 1405) >>,
                 surtax |-> << >> ],
      NU |-> [ brackets |-> << TaxBracket(0, 53268, 400),
                               TaxBracket(53268, 106537, 700),
                               TaxBracket(106537, 173205, 900),
                               TaxBracket(173205, 246752, 1150),
                               TaxBracket(246752, Inf, 1150) >>,
                 surtax |-> << >> ],
      ON |-> [ brackets |-> << TaxBracket(0, 51446, 505),
                               TaxBracket(51446, 102894, 915),
                               TaxBracket(102894, 150000, 1116),
                               TaxBracket(150000, 220000, 1216),
                               TaxBracket(220000, Inf, 1316) >>,
                 surtax |-> << SurtaxTier(20, 5554), SurtaxTier(36, 7108) >> ],
      PE |-> [ brackets |-> << TaxBracket(0, 32656, 980),
                               TaxBracket(32656, 65312, 1380),
                               TaxBracket(65312, 105000, 1670),
                               TaxBracket(105000, Inf, 1870) >>,
                 surtax |-> << SurtaxTier(10, 12500) >> ],
      QC |-> [ brackets |-> << TaxBracket(0, 51780, 1400),
                               TaxBracket(51780, 103545, 1900),
                               TaxBracket(103545, 126000, 2400),
                               TaxBracket(126000, Inf, 2575) >>,
                 surtax |-> << >> ],
      SK |-> [ brackets |-> << TaxBracket(0, 52057, 1050),
                               TaxBracket(52057, 148734, 1250),
                               TaxBracket(148734, Inf, 1450) >>,
                 surtax |-> << >> ],
      YT |-> [ brackets |-> << TaxBracket(0, 55867, 640),
                               TaxBracket(55867, 111733, 900),
                               TaxBracket(111733, 173205, 1090),
                               TaxBracket(173205, 500000, 1280),
                               TaxBracket(500000, Inf, 1500) >>,
                 surtax |-> << >> ] ]

\* the calculator after __init__: every attribute setup_tax_data and
\* setup_benefit_thresholds set that a computation reads
setup_tax_data ==
    [ federal_brackets |-> federal_brackets,
      federal_amounts |-> federal_amounts,
      amt_exemption |-> 40000,
      amt_rate |-> 1500,
      stock_option_deduction_rate |-> 5000,
      provincial_data |-> provincial_data,
      cpp_max_pensionable |-> 71300,
      cpp_basic_exemption |-> 3500,
      cpp_rate |-> 595,
      cpp_max_contribution |-> 40552500,
      ei_max_insurable |-> 63750,
      ei_rate |-> 163,
      ei_rate_quebec |-> 127,
      qpip_rate |-> 494,
      qpp_rate |-> 640,
      qpp_max_pensionable |-> 71300,
      qpp_basic_exemption |-> 3500,
      oas_clawback_threshold |-> 86912,
      oas_clawback_rate |-> 1500,
      ei_clawback_threshold |-> 78750,
      ei_clawback_rate |-> 3000,
      ccb_max_under6 |-> 7787,
      ccb_max_6to17 |-> 6570,
      ccb_threshold |-> 36502,
      ccb_reduction_rate1 |-> 700,
      ccb_reduction_rate2 |-> 320,
      ccb_second_threshold |-> 78221,
      gst_credit_single |-> 467,
      gst_credit_married |-> 612,
      gst_credit_child |-> 161,
      gst_credit_threshold |-> 42335 ]

\* ---------------------------------------------------------------------------
\* The methods of the calculator.  self is the calculator record.

calculate_total_income(self, income) ==
    LET employment_total == income.employment_income + income.employment_benefits
                            + income.stock_option_benefit + income.commission_income
                            + income.tips_gratuities
        business_total == income.business_income + income.professional_income
                          + income.farming_income + income.fishing_income
                          + income.partnership_income
        dividend_total == (income.canadian_dividend_income
                             * self.federal_amounts.dividend_gross_up) \div 100
                          + income.foreign_dividend_income
        investment_total == income.interest_income + dividend_total + income.rental_income
                            + income.royalty_income + income.foreign_business_income
                            + income.foreign_non_business_income
        capital_gains_half == Max(0, ((income.capital_gains - income.capital_losses_current) * 5)
                                       \div 10)
        capital_gains_total == Max(0, capital_gains_half - income.net_capital_losses_applied)
        pension_total == income.cpp_qpp_benefits + income.oas_benefits + income.private_pension
                         + income.foreign_pension + income.rrif_withdrawals
                         + income.lif_withdrawals + income.annuity_income
        other_total == income.ei_benefits + income.alimony_received
                       + income.scholarship_income + income.death_benefits
                       + income.other_income
    IN  employment_total + business_total + investment_total
        + capital_gains_total + pension_total + other_total

\* the loop of calculate_tax_on_brackets from bracket i on, total_tax so far
RECURSIVE tax_on_brackets_from(_, _, _, _)
tax_on_brackets_from(income, brackets, i, total_tax) ==
    IF i > Len(brackets) THEN total_tax
    ELSE IF income <= brackets[i].min_income THEN total_tax
    ELSE LET taxable_in_bracket == Min(income, brackets[i].max_income)
                                   - brackets[i].min_income
         IN  tax_on_brackets_from(income, brackets, i + 1,
                 IF taxable_in_bracket > 0
                 THEN total_tax + taxable_in_bracket * brackets[i].rate
                 ELSE total_tax)

\* calculate_tax_on_brackets with "total_tax = ..." for "total_tax += ..."
RECURSIVE tax_on_brackets_assigning(_, _, _, _)
tax_on_brackets_assigning(income, brackets, i, total_tax) ==
    IF i > Len(brackets) THEN total_tax
    ELSE IF income <= brackets[i].min_income THEN total_tax
    ELSE LET taxable_in_bracket == Min(income, brackets[i].max_income)
                                   - brackets[i].min_income
         IN  tax_on_brackets_assigning(income, brackets, i + 1,
                 IF taxable_in_bracket > 0
                 THEN taxable_in_bracket * brackets[i].rate
                 ELSE total_tax)

calculate_tax_on_brackets_assigning(income, brackets) ==
    tax_on_brackets_assigning(income, brackets, 1, 0)

\* calculate_tax_on_brackets charging the whole income at the rate of the
\* bracket it reaches
calculate_tax_on_brackets_flat(income, brackets) ==
    LET reached == { i \in 1..Len(brackets) : income > brackets[i].min_income }
    IN  IF reached = {} THEN 0
        ELSE income * brackets[CHOOSE i \in reached : \A j \in reached : j <= i].rate

calculate_tax_on_brackets(income, brackets) ==
    tax_on_brackets_from(income, brackets, 1, 0)

\* calculate_marginal_rate with a bracket holding its upper end, not its lower
calculate_marginal_rate_upper_end(income, brackets) ==
    LET hits == { i \in 1..Len(brackets) :
                    income > brackets[i].min_income /\ income <= brackets[i].max_income }
    IN  IF hits # {}
        THEN brackets[CHOOSE i \in hits : \A j \in hits : i <= j].rate
        ELSE IF Len(brackets) > 0 THEN brackets[Len(brackets)].rate ELSE 0

calculate_marginal_rate(income, brackets) ==
    LET hits == { i \in 1..Len(brackets) :
                    income >= brackets[i].min_income /\ income < brackets[i].max_income }
    IN  IF hits # {}
        THEN brackets[CHOOSE i \in hits : \A j \in hits : i <= j].rate
        ELSE IF Len(brackets) > 0 THEN brackets[Len(brackets)].rate ELSE 0

calculate_combined_marginal_rate(self, income, province) ==
    LET federal_rate == calculate_marginal_rate(income, self.federal_brackets)
        provincial_rate == IF province \in DOMAIN self.provincial_data
                           THEN calculate_marginal_rate(income,
                                    self.provincial_data[province].brackets)
                           ELSE 0
    IN  (federal_rate + provincial_rate) * 100

\* calculate_provincial_surtax with the second tier in place of the first
\* once the provincial tax is over the second threshold
calculate_provincial_surtax_highest_tier(self, province, provincial_tax) ==
    IF province \notin DOMAIN self.provincial_data THEN 0
    ELSE LET surtax_info == self.provincial_data[province].surtax
             tier1 == IF Len(surtax_info) >= 1
                         /\ provincial_tax > surtax_info[1].threshold * Scale
                      THEN MulDiv(provincial_tax - surtax_info[1].threshold * Scale,
                                  surtax_info[1].rate, 100)
                      ELSE 0
         IN  IF Len(surtax_info) >= 2 /\ provincial_tax > surtax_info[2].threshold * Scale
             THEN MulDiv(provincial_tax - surtax_info[2].threshold * Scale,
                         surtax_info[2].rate, 100)
             ELSE tier1

\* provincial surtax on provincial_tax (lines 859-871); 0 for a province
\* that is not in the table
calculate_provincial_surtax(self, province, provincial_tax) ==
    IF province \notin DOMAIN self.provincial_data THEN 0
    ELSE LET surtax_info == self.provincial_data[province].surtax
             tier1 == IF Len(surtax_info) >= 1
                         /\ provincial_tax > surtax_info[1].threshold * Scale
                      THEN MulDiv(provincial_tax - surtax_info[1].threshold * Scale,
                                  surtax_info[1].rate, 100)
                      ELSE 0
             tier2 == IF Len(surtax_info) >= 2
                         /\ provincial_tax > surtax_info[2].threshold * Scale
                      THEN MulDiv(provincial_tax - surtax_info[2].threshold * Scale,
                                  surtax_info[2].rate, 100)
                      ELSE 0
         IN  tier1 + tier2

calculate_non_refundable_credits(self, province, personal_info, income, deductions, net_income) ==
    LET fa == self.federal_amounts
        spouse_credit_amount == Max(0, fa.spouse_equivalent - personal_info.spouse_income)
        age_reduction == Max(0, net_income - fa.age_threshold) * 15
        age_credit_amount == Max(0, fa.age_amount * 100 - age_reduction)
        eligible_pension == Min(fa.pension_amount,
                                income.private_pension + income.rrif_withdrawals)
        medical_threshold == Min(275900, net_income * 3)
        eligible_medical == Max(0, deductions.medical_expenses * 100 - medical_threshold)
    IN  [ basic_personal |-> fa.basic_personal * fa.tuition_rate,
          spouse |-> IF personal_info.is_married
                     THEN spouse_credit_amount * fa.tuition_rate ELSE 0,
          dependant |-> personal_info.num_dependants * fa.dependant * fa.tuition_rate,
          age |-> IF personal_info.age >= 65
                  THEN (age_credit_amount * fa.tuition_rate) \div 100 ELSE 0,
          pension |-> eligible_pension * fa.tuition_rate,
          disability |-> IF personal_info.has_disability
                         THEN fa.disability_amount * fa.tuition_rate ELSE 0,
          tuition |-> deductions.tuition_fees * fa.tuition_rate,
          medical |-> (eligible_medical * fa.medical_rate) \div 100,
          charitable |-> IF deductions.charitable_donations <= 200
                         THEN deductions.charitable_donations * fa.charitable_rate_low
                         ELSE 200 * fa.charitable_rate_low
                              + (deductions.charitable_donations - 200)
                                  * fa.charitable_rate_high,
          political |-> Min(deductions.political_contributions * 7500, 650 * Scale) ]

\* calculate_alternative_minimum_tax starting from the income after the RRSP
\* deduction
calculate_alternative_minimum_tax_after_rrsp(self, income, deductions, advanced_deductions) ==
    LET amt_income == calculate_total_income(self, income) - deductions.rrsp_contribution
                      + (income.stock_option_benefit * 5) \div 10
                      + (advanced_deductions.capital_cost_allowance * 5) \div 10
        amt_taxable_income == Max(0, amt_income - self.amt_exemption)
    IN  [ amt_income |-> amt_income,
          amt_tax |-> amt_taxable_income * self.amt_rate,
          amt_carryforward |-> 0 ]

calculate_alternative_minimum_tax(self, income, deductions, advanced_deductions) ==
    LET amt_income == calculate_total_income(self, income)
                      + (income.stock_option_benefit * 5) \div 10
                      + (advanced_deductions.capital_cost_allowance * 5) \div 10
        amt_taxable_income == Max(0, amt_income - self.amt_exemption)
    IN  [ amt_income |-> amt_income,
          amt_tax |-> amt_taxable_income * self.amt_rate,
          amt_carryforward |-> 0 ]

calculate_foreign_tax_credit(foreign_tax, federal_tax, net_income) ==
    IF foreign_tax.foreign_business_tax = 0 /\ foreign_tax.foreign_non_business_tax = 0
    THEN 0
    ELSE LET total_foreign_tax == foreign_tax.foreign_business_tax
                                  + foreign_tax.foreign_non_business_tax
         IN  Min(total_foreign_tax * Scale, federal_tax \div 10)

\* calculate_cpp_contribution without the floor max(0, ...)
calculate_cpp_contribution_unfloored(self, employment_income, province) ==
    IF province = "QC"
    THEN (Min(employment_income, self.qpp_max_pensionable) - self.qpp_basic_exemption)
         * self.qpp_rate
    ELSE Min((Min(employment_income, self.cpp_max_pensionable) - self.cpp_basic_exemption)
             * self.cpp_rate, self.cpp_max_contribution)

calculate_cpp_contribution(self, employment_income, province) ==
    IF province = "QC"
    THEN LET pensionable_earnings == Min(employment_income, self.qpp_max_pensionable)
                                     - self.qpp_basic_exemption
         IN  Max(0, pensionable_earnings * self.qpp_rate)
    ELSE LET pensionable_earnings == Min(employment_income, self.cpp_max_pensionable)
                                     - self.cpp_basic_exemption
         IN  Min(Max(0, pensionable_earnings * self.cpp_rate), self.cpp_max_contribution)

\* qpip_rate is in 1/100000 (0.00494 is 494)
calculate_ei_contribution(self, employment_income, province) ==
    LET insurable_earnings == Min(employment_income, self.ei_max_insurable)
    IN  IF province = "QC"
        THEN insurable_earnings * self.ei_rate_quebec
             + (insurable_earnings * self.qpip_rate) \div 10
        ELSE insurable_earnings * self.ei_rate

\* calculate_clawbacks without the limit of the OAS clawback to the benefits
calculate_clawbacks_unlimited(self, net_income, income) ==
    LET oas == IF net_income > self.oas_clawback_threshold
               THEN (net_income - self.oas_clawback_threshold) * self.oas_clawback_rate
               ELSE 0
        ei == IF net_income > self.ei_clawback_threshold /\ income.ei_benefits > 0
              THEN Min(income.ei_benefits * 3000,
                       (net_income - self.ei_clawback_threshold) * self.ei_clawback_rate)
              ELSE 0
    IN  [ oas |-> oas, ei |-> ei, social_benefit |-> 0, total |-> oas + ei + 0 ]

calculate_clawbacks(self, net_income, income) ==
    LET oas == IF net_income > self.oas_clawback_threshold
               THEN Min(income.oas_benefits * Scale,
                        (net_income - self.oas_clawback_threshold) * self.oas_clawback_rate)
               ELSE 0
        ei == IF net_income > self.ei_clawback_threshold /\ income.ei_benefits > 0
              THEN Min(income.ei_benefits * 3000,
                       (net_income - self.ei_clawback_threshold) * self.ei_clawback_rate)
              ELSE 0
    IN  [ oas |-> oas, ei |-> ei, social_benefit |-> 0, total |-> oas + ei + 0 ]

\* the loop over dependant_ages (lines 1123-1127) from index i on
RECURSIVE ccb_amount_from(_, _, _)
ccb_amount_from(self, dependant_ages, i) ==
    IF i > Len(dependant_ages) THEN 0
    ELSE (IF dependant_ages[i] < 6 THEN self.ccb_max_under6 ELSE self.ccb_max_6to17)
         + ccb_amount_from(self, dependant_ages, i + 1)

calculate_refundable_credits(self, province, personal_info, net_income) ==
    LET gst_base == (IF personal_info.is_married
                     THEN self.gst_credit_married ELSE self.gst_credit_single)
                    + personal_info.num_dependants * self.gst_credit_child
        gst_hst == IF net_income > self.gst_credit_threshold
                   THEN Max(0, gst_base * Scale
                               - (net_income - self.gst_credit_threshold) * 500)
                   ELSE gst_base * Scale
        ccb_amount == ccb_amount_from(self, personal_info.dependant_ages, 1)
        canada_child_benefit ==
            IF personal_info.num_dependants > 0
            THEN IF net_income > self.ccb_threshold
                 THEN Max(0, ccb_amount * Scale
                             - (net_income - self.ccb_threshold) * self.ccb_reduction_rate1)
                 ELSE ccb_amount * Scale
            ELSE 0
    IN  [ gst_hst |-> gst_hst,
          canada_child_benefit |-> canada_child_benefit,
          canada_workers_benefit |-> 0,
          climate_action_incentive |-> 0,
          working_income_tax_benefit |-> 0,
          total |-> gst_hst + canada_child_benefit + 0 + 0 + 0 ]

\* The amount of d dollars plus x 1/10000 dollars, as whole dollars and a
\* fraction in 0..Scale-1 (net_income_after_tax of a high income is beyond
\* the integers of the model checker in 1/10000 dollar)
Dollars(d, x) == [ dollars |-> d + x \div Scale, frac |-> x % Scale ]

\* Optional[T]: None is the empty sequence, a value v is <<v>>
None == << >>

AdvancedDeductions == [ business_expenses |-> 0, capital_cost_allowance |-> 0,
                        non_capital_losses_applied |-> 0, farm_losses_applied |-> 0 ]

ForeignTaxPaid == [ foreign_business_tax |-> 0, foreign_non_business_tax |-> 0,
                    foreign_tax_carryover |-> 0 ]

PensionSplitting == [ eligible_pension_income |-> 0, amount_to_split |-> 0,
                      split_with_spouse |-> FALSE ]

calculate_comprehensive_tax(self, province, personal_info, income, deductions, advanced_deductions_arg, foreign_tax_arg, pension_splitting_arg) ==
    LET advanced_deductions == IF advanced_deductions_arg = None
                               THEN AdvancedDeductions ELSE advanced_deductions_arg[1]
        foreign_tax == IF foreign_tax_arg = None THEN ForeignTaxPaid ELSE foreign_tax_arg[1]
        pension_splitting == IF pension_splitting_arg = None
                             THEN PensionSplitting ELSE pension_splitting_arg[1]
        total_income == calculate_total_income(self, income)
        stock_option_deduction ==
            IF income.stock_option_deduction_eligible
            THEN (income.stock_option_benefit * self.stock_option_deduction_rate) \div Scale
            ELSE 0
        total_deductions == deductions.rrsp_contribution + deductions.union_dues
                            + deductions.childcare_expenses + deductions.alimony_paid
                            + stock_option_deduction + advanced_deductions.business_expenses
                            + advanced_deductions.non_capital_losses_applied
        net_income == Max(0, total_income - total_deductions)
        additional_deductions == deductions.medical_expenses + deductions.charitable_donations
                                 + advanced_deductions.farm_losses_applied
        taxable_income == Max(0, net_income - additional_deductions)
        split_income_subject_to_tosi ==
            IF income.split_income_amount > 0 THEN income.split_income_amount ELSE 0
        tosi_tax == IF income.split_income_amount > 0
                    THEN calculate_tax_on_brackets(split_income_subject_to_tosi,
                                                   self.federal_brackets)
                    ELSE 0
        federal_tax == calculate_tax_on_brackets(taxable_income, self.federal_brackets)
        provincial_tax == IF province \in DOMAIN self.provincial_data
                          THEN calculate_tax_on_brackets(taxable_income,
                                   self.provincial_data[province].brackets)
                          ELSE 0
        provincial_surtax == calculate_provincial_surtax(self, province, provincial_tax)
        total_tax_before_credits == federal_tax + provincial_tax + provincial_surtax + tosi_tax
        credits == calculate_non_refundable_credits(self, province, personal_info, income,
                                                    deductions, net_income)
        foreign_tax_credit == calculate_foreign_tax_credit(foreign_tax, federal_tax, net_income)
        total_non_refundable_credits ==
            credits.basic_personal + credits.spouse + credits.dependant + credits.age
            + credits.pension + credits.disability + credits.tuition + credits.medical
            + credits.charitable + credits.political + foreign_tax_credit
        total_tax_after_credits == Max(0, total_tax_before_credits - total_non_refundable_credits)
        amt_result == calculate_alternative_minimum_tax(self, income, deductions,
                                                        advanced_deductions)
        final_tax == Max(total_tax_after_credits, amt_result.amt_tax)
        cpp_contribution == calculate_cpp_contribution(self, income.employment_income, province)
        ei_contribution == calculate_ei_contribution(self, income.employment_income, province)
        clawbacks == calculate_clawbacks(self, net_income, income)
        refundable_credits == calculate_refundable_credits(self, province, personal_info,
                                                           net_income)
        total_payable == final_tax + cpp_contribution + ei_contribution + clawbacks.total
        net_income_after_tax == Dollars(net_income, refundable_credits.total - total_payable)
        \* total_payable / net_income * 100, in 1/10000 percent (the unit of
        \* marginal_tax_rate), truncated
        average_tax_rate == IF net_income > 0
                            THEN MulDiv(total_payable, 100, net_income)
                            ELSE 0
        marginal_tax_rate == calculate_combined_marginal_rate(self, taxable_income, province)
    IN  [ total_income |-> total_income,
          net_income |-> net_income,
          taxable_income |-> taxable_income,
          split_income_subject_to_tosi |-> split_income_subject_to_tosi,
          federal_tax |-> federal_tax,
          provincial_tax |-> provincial_tax,
          total_tax_before_credits |-> total_tax_before_credits,
          amt_income |-> amt_result.amt_income,
          amt_tax |-> amt_result.amt_tax,
          amt_carryforward |-> amt_result.amt_carryforward,
          tosi_tax |-> tosi_tax,
          basic_personal_credit |-> credits.basic_personal,
          spouse_credit |-> credits.spouse,
          dependant_credit |-> credits.dependant,
          age_credit |-> credits.age,
          pension_credit |-> credits.pension,
          disability_credit |-> credits.disability,
          tuition_credit |-> credits.tuition,
          medical_credit |-> credits.medical,
          charitable_credit |-> credits.charitable,
          political_credit |-> credits.political,
          foreign_tax_credit |-> foreign_tax_credit,
          total_non_refundable_credits |-> total_non_refundable_credits,
          provincial_surtax |-> provincial_surtax,
          total_tax_after_credits |-> total_tax_after_credits,
          cpp_contribution |-> cpp_contribution,
          ei_contribution |-> ei_contribution,
          gst_hst_credit |-> refundable_credits.gst_hst,
          canada_workers_benefit |-> refundable_credits.canada_workers_benefit,
          canada_child_benefit |-> refundable_credits.canada_child_benefit,
          climate_action_incentive |-> refundable_credits.climate_action_incentive,
          working_income_tax_benefit |-> refundable_credits.working_income_tax_benefit,
          total_refundable_credits |-> refundable_credits.total,
          oas_clawback |-> clawbacks.oas,
          ei_benefit_clawback |-> clawbacks.ei,
          social_benefit_repayment |-> clawbacks.social_benefit,
          total_clawbacks |-> clawbacks.total,
          total_payable |-> total_payable,
          net_income_after_tax |-> net_income_after_tax,
          average_tax_rate |-> average_tax_rate,
          marginal_tax_rate |-> marginal_tax_rate ]

\* ---------------------------------------------------------------------------
\* The input records: the dataclasses with their defaults, restricted to the
\* fields a computation reads (and PensionSplitting, which it receives).

PersonalInfo == [ age |-> 30, is_married |-> FALSE, spouse_income |-> 0,
                  has_disability |-> FALSE, num_dependants |-> 0,
                  dependant_ages |-> << >> ]

IncomeDetails ==
    [ employment_income |-> 0, employment_benefits |-> 0, stock_option_benefit |-> 0,
      stock_option_deduction_eligible |-> FALSE, commission_income |-> 0,
      tips_gratuities |-> 0, business_income |-> 0, professional_income |-> 0,
      farming_income |-> 0, fishing_income |-> 0, partnership_income |-> 0,
      interest_income |-> 0, canadian_dividend_income |-> 0,
      foreign_dividend_income |-> 0, foreign_business_income |-> 0,
      foreign_non_business_income |-> 0, rental_income |-> 0, royalty_income |-> 0,
      capital_gains |-> 0, capital_losses_current |-> 0,
      net_capital_losses_applied |-> 0, cpp_qpp_benefits |-> 0, oas_benefits |-> 0,
      private_pension |-> 0, foreign_pension |-> 0, rrif_withdrawals |-> 0,
      lif_withdrawals |-> 0, annuity_income |-> 0, ei_benefits |-> 0,
      alimony_received |-> 0, scholarship_income |-> 0, death_benefits |-> 0,
      other_income |-> 0, split_income_amount |-> 0 ]

DeductionsCredits ==
    [ rrsp_contribution |-> 0, union_dues |-> 0, childcare_expenses |-> 0,
      alimony_paid |-> 0, medical_expenses |-> 0, tuition_fees |-> 0,
      charitable_donations |-> 0, political_contributions |-> 0 ]

\* the arguments of one call of calculate_comprehensive_tax
Call(province, personal_info, income, deductions, advanced_deductions, foreign_tax, pension_splitting) ==
    [ province |-> province, personal_info |-> personal_info, income |-> income,
      deductions |-> deductions, advanced_deductions |-> advanced_deductions,
      foreign_tax |-> foreign_tax, pension_splitting |-> pension_splitting ]

\* the TaxResult of the call r on the calculator self
TaxResult(self, r) ==
    calculate_comprehensive_tax(self, r.province, r.personal_info, r.income, r.deductions,
                                r.advanced_deductions, r.foreign_tax, r.pension_splitting)

\* ---------------------------------------------------------------------------
\* The inputs explored.

Provinces == DOMAIN provincial_data

ProvinceCodes == Provinces \cup {"XX"}

EmploymentIncomes == {0, 3000, 20000, 45000, 60000, 90000, 110000, 160000, 230000, 250000}

PersonalInfos ==
    { PersonalInfo,
      [PersonalInfo EXCEPT !.age = 70, !.is_married = TRUE, !.spouse_income = 5000],
      [PersonalInfo EXCEPT !.is_married = TRUE, !.spouse_income = 20000,
                           !.has_disability = TRUE, !.num_dependants = 2,
                           !.dependant_ages = <<3, 10>>] }

\* the rest of a call: other income, deductions and the optional records
Rest(income, deductions, advanced_deductions, foreign_tax, pension_splitting) ==
    [ income |-> income, deductions |-> deductions,
      advanced_deductions |-> advanced_deductions, foreign_tax |-> foreign_tax,
      pension_splitting |-> pension_splitting ]

Rests ==
    { Rest(IncomeDetails, DeductionsCredits, None, None, None),
      \* a retiree with medical expenses and donations
      Rest([IncomeDetails EXCEPT !.oas_benefits = 7362, !.private_pension = 20000,
                                 !.cpp_qpp_benefits = 10000],
           [DeductionsCredits EXCEPT !.medical_expenses = 3000,
                                     !.charitable_donations = 1000],
           None, None, None),
      \* an investor with foreign income and foreign tax paid
      Rest([IncomeDetails EXCEPT !.canadian_dividend_income = 10000,
                                 !.interest_income = 1000, !.capital_gains = 40000,
                                 !.capital_losses_current = 10000,
                                 !.net_capital_losses_applied = 5000,
                                 !.foreign_non_business_income = 5000],
           [DeductionsCredits EXCEPT !.rrsp_contribution = 10000],
           None,
           <<[ForeignTaxPaid EXCEPT !.foreign_non_business_tax = 2000]>>,
           None),
      \* stock options, split income, CCA and large tuition fees
      Rest([IncomeDetails EXCEPT !.stock_option_benefit = 20000,
                                 !.stock_option_deduction_eligible = TRUE,
                                 !.split_income_amount = 30000],
           [DeductionsCredits EXCEPT !.tuition_fees = 60000],
           <<[AdvancedDeductions EXCEPT !.capital_cost_allowance = 100000,
                                        !.business_expenses = 5000]>>,
           None, None),
      \* EI benefits, employment deductions and a pension-splitting election
      Rest([IncomeDetails EXCEPT !.ei_benefits = 10000],
           [DeductionsCredits EXCEPT !.union_dues = 500, !.childcare_expenses = 4000,
                                     !.political_contributions = 1000],
           <<[AdvancedDeductions EXCEPT !.farm_losses_applied = 2000]>>,
           <<ForeignTaxPaid>>,
           <<[PensionSplitting EXCEPT !.eligible_pension_income = 10000,
                                      !.amount_to_split = 5000,
                                      !.split_with_spouse = TRUE]>>),
      \* nothing but claimed capital cost allowance
      Rest(IncomeDetails, DeductionsCredits,
           <<[AdvancedDeductions EXCEPT !.capital_cost_allowance = 80000]>>, None, None),
      Rest(IncomeDetails, DeductionsCredits,
           <<[AdvancedDeductions EXCEPT !.capital_cost_allowance = 100000]>>, None, None) }

ValidRequests ==
    { Call(p, pi, [x.income EXCEPT !.employment_income = e], x.deductions,
           x.advanced_deductions, x.foreign_tax, x.pension_splitting) :
        p \in ProvinceCodes, pi \in PersonalInfos, e \in EmploymentIncomes, x \in Rests }

\* calls with a negative monetary field
NegativeRequests ==
    { Call(p, PersonalInfo, [IncomeDetails EXCEPT !.employment_income = -5000],
           DeductionsCredits, None, None, None) : p \in {"ON", "QC"} }
    \cup
    { Call("ON", PersonalInfo, [IncomeDetails EXCEPT !.employment_income = 60000],
           [DeductionsCredits EXCEPT !.rrsp_contribution = -1000], None, None, None),
      Call("ON", PersonalInfo, [IncomeDetails EXCEPT !.employment_income = 60000],
           [DeductionsCredits EXCEPT !.tuition_fees = -1000], None, None, None),
      Call("BC", [PersonalInfo EXCEPT !.is_married = TRUE, !.spouse_income = -1000],
           [IncomeDetails EXCEPT !.employment_income = 60000],
           DeductionsCredits, None, None, None),
      Call("AB", PersonalInfo, [IncomeDetails EXCEPT !.employment_income = 60000],
           DeductionsCredits, None,
           <<[ForeignTaxPaid EXCEPT !.foreign_non_business_tax = -500]>>, None) }

\* single calls at the amounts where a rule changes: incomes at the bracket
\* boundaries, a net income of 100,000 with OAS benefits, donations around
\* the first 200, split income into the higher brackets, and the like
ScenarioRequests ==
    { Call(p, PersonalInfo, [IncomeDetails EXCEPT !.employment_income = e],
           DeductionsCredits, None, None, None) :
        p \in {"ON", "NT"},
        e \in {51445, 51446, 51447, 55866, 55867, 55868, 239228, 239229, 239230} }
    \cup
    { Call("ON", [PersonalInfo EXCEPT !.age = 70],
           [IncomeDetails EXCEPT !.employment_income = e, !.oas_benefits = 7362],
           DeductionsCredits, None, None, None) : e \in {79550, 79551, 92638} }
    \cup
    { Call("ON", PersonalInfo, [IncomeDetails EXCEPT !.employment_income = 60000],
           [DeductionsCredits EXCEPT !.charitable_donations = d], None, None, None) :
        d \in {1, 199, 200, 201, 1000} }
    \cup
    { Call(p, PersonalInfo,
           [IncomeDetails EXCEPT !.employment_income = 60000, !.split_income_amount = s],
           DeductionsCredits, None, None, None) :
        p \in {"ON", "QC"}, s \in {1, 55867, 100000, 300000} }
    \cup
    \* deductions above the income, and a stock-option benefit without the
    \* eligibility flag
    { Call("ON", PersonalInfo, [IncomeDetails EXCEPT !.employment_income = 3000],
           [DeductionsCredits EXCEPT !.rrsp_contribution = 10000], None, None, None),
      Call("ON", PersonalInfo, [IncomeDetails EXCEPT !.employment_income = 3000],
           [DeductionsCredits EXCEPT !.medical_expenses = 3000,
                                     !.charitable_donations = 1000], None, None, None),
      Call("ON", PersonalInfo,
           [IncomeDetails EXCEPT !.employment_income = 60000,
                                 !.stock_option_benefit = 20000],
           DeductionsCredits, None, None, None) }
    \cup
    \* capital gains below the current losses, and below the losses applied
    { Call("ON", PersonalInfo,
           [IncomeDetails EXCEPT !.employment_income = 60000, !.capital_gains = g[1],
                                 !.capital_losses_current = g[2],
                                 !.net_capital_losses_applied = g[3]],
           DeductionsCredits, None, None, None) :
        g \in { <<10000, 40000, 0>>, <<40000, 0, 30000>>, <<40000, 10000, 15000>>,
                <<40000, 10000, 5000>>, <<40000, 0, 0>> } }
    \cup
    \* children, with net incomes around the thresholds of the child benefit
    { Call("ON", [PersonalInfo EXCEPT !.num_dependants = 2, !.dependant_ages = <<5, 6>>],
           [IncomeDetails EXCEPT !.employment_income = e],
           DeductionsCredits, None, None, None) :
        e \in {30000, 36502, 36503, 78221, 78222, 90000, 250000} }
    \cup
    { Call("ON", [PersonalInfo EXCEPT !.num_dependants = 2],
           [IncomeDetails EXCEPT !.employment_income = 60000],
           DeductionsCredits, None, None, None) }
    \cup
    \* age 70, with net incomes around the ends of the age credit's reduction
    { Call("ON", [PersonalInfo EXCEPT !.age = a],
           [IncomeDetails EXCEPT !.employment_income = e],
           DeductionsCredits, None, None, None) :
        a \in {64, 65, 70}, e \in {42335, 42336, 100934, 100935, 100936} }
    \cup
    \* a pensioner with and without a pension-splitting election
    { Call("ON", [PersonalInfo EXCEPT !.age = 70, !.is_married = TRUE,
                                      !.spouse_income = 5000],
           [IncomeDetails EXCEPT !.private_pension = 40000, !.oas_benefits = 7362],
           DeductionsCredits, None, None, ps) :
        ps \in { None, <<PensionSplitting>>,
                 <<[PensionSplitting EXCEPT !.eligible_pension_income = 40000,
                                            !.amount_to_split = 20000,
                                            !.split_with_spouse = TRUE]>>,
                 <<[PensionSplitting EXCEPT !.eligible_pension_income = 40000,
                                            !.amount_to_split = 10000]>> } }

Requests == ValidRequests \cup NegativeRequests \cup ScenarioRequests

\* the calls that several callers make on one calculator
SharedRequests ==
    { r \in ValidRequests :
        /\ r.province \in {"ON", "QC"}
        /\ r.income.employment_income \in {0, 60000}
        /\ r.personal_info.age = 30
        /\ r.advanced_deductions = None /\ r.foreign_tax = None }

\* ---------------------------------------------------------------------------
\* The callers.  Each caller builds the input records and calls
\* calculate_comprehensive_tax on the one calculator; the result is handed
\* back and the records are dropped.

NumCallers == 2

Callers == 1..NumCallers

SingleCaller == {1}

Init ==
    /\ calculator = setup_tax_data
    /\ pc = [c \in Callers |-> "idle"]
    /\ request = [c \in Callers |-> None]
    /\ result = [c \in Callers |-> None]

Submit(c, R) ==
    /\ pc[c] = "idle"
    /\ \E r \in R :
          request' = [request EXCEPT ![c] = <<r>>]
    /\ pc' = [pc EXCEPT ![c] = "called"]
    /\ UNCHANGED <<calculator, result>>

\* Calculate with the GST base accumulated in the calculator's own
\* gst_credit_married / gst_credit_single instead of a local
CalculateAccumulatingGstBase(c) ==
    /\ pc[c] = "called"
    /\ result' = [result EXCEPT ![c] = <<TaxResult(calculator, request[c][1])>>]
    /\ pc' = [pc EXCEPT ![c] = "returned"]
    /\ calculator' =
          LET pi == request[c][1].personal_info
              more == pi.num_dependants * calculator.gst_credit_child
          IN  IF pi.is_married
              THEN [calculator EXCEPT !.gst_credit_married = @ + more]
              ELSE [calculator EXCEPT !.gst_credit_single = @ + more]
    /\ UNCHANGED request

\* Calculate with the spouse amount reduced in place in federal_amounts
\* (the alias of self.federal_amounts) instead of in a local
CalculateReducingSpouseAmount(c) ==
    /\ pc[c] = "called"
    /\ result' = [result EXCEPT ![c] = <<TaxResult(calculator, request[c][1])>>]
    /\ pc' = [pc EXCEPT ![c] = "returned"]
    /\ calculator' = [calculator EXCEPT !.federal_amounts.spouse_equivalent =
                         Max(0, @ - request[c][1].personal_info.spouse_income)]
    /\ UNCHANGED request

\* Calculate giving the high rate to the whole of a donation over 200
CalculateDonationsAtOneRate(c) ==
    /\ pc[c] = "called"
    /\ LET r == TaxResult(calculator, request[c][1])
           d == request[c][1].deductions.charitable_donations
       IN  result' = [result EXCEPT ![c] =
               <<[r EXCEPT !.charitable_credit =
                     IF d <= 200 THEN d * calculator.federal_amounts.charitable_rate_low
                     ELSE d * calculator.federal_amounts.charitable_rate_high]>>]
    /\ pc' = [pc EXCEPT ![c] = "returned"]
    /\ UNCHANGED <<calculator, request>>

\* Calculate taking the average rate over the total income, before deductions
CalculateAveragingOverTotalIncome(c) ==
    /\ pc[c] = "called"
    /\ LET r == TaxResult(calculator, request[c][1])
       IN  result' = [result EXCEPT ![c] =
               <<[r EXCEPT !.average_tax_rate =
                     IF r.total_income > 0
                     THEN MulDiv(r.total_payable, 100, r.total_income) ELSE 0]>>]
    /\ pc' = [pc EXCEPT ![c] = "returned"]
    /\ UNCHANGED <<calculator, request>>

\* Calculate taxing the split income on top of the taxable income, in the
\* brackets above it
CalculateStackingSplitIncome(c) ==
    /\ pc[c] = "called"
    /\ LET r == TaxResult(calculator, request[c][1])
           stacked == calculate_tax_on_brackets(
                          r.taxable_income + r.split_income_subject_to_tosi,
                          calculator.federal_brackets) - r.federal_tax
       IN  result' = [result EXCEPT ![c] =
               <<[r EXCEPT !.tosi_tax = stacked,
                           !.total_tax_before_credits = @ - r.tosi_tax + stacked]>>]
    /\ pc' = [pc EXCEPT ![c] = "returned"]
    /\ UNCHANGED <<calculator, request>>

\* Calculate without the floor of the net income at 0
CalculateWithoutNetIncomeFloor(c) ==
    /\ pc[c] = "called"
    /\ LET r == TaxResult(calculator, request[c][1])
           q == request[c][1]
           advanced == IF q.advanced_deductions = None
                       THEN AdvancedDeductions ELSE q.advanced_deductions[1]
           stock_option_deduction ==
               IF q.income.stock_option_deduction_eligible
               THEN (q.income.stock_option_benefit * calculator.stock_option_deduction_rate)
                        \div Scale
               ELSE 0
       IN  result' = [result EXCEPT ![c] =
               <<[r EXCEPT !.net_income =
                     r.total_income
                     - (q.deductions.rrsp_contribution + q.deductions.union_dues
                        + q.deductions.childcare_expenses + q.deductions.alimony_paid
                        + stock_option_deduction + advanced.business_expenses
                        + advanced.non_capital_losses_applied)]>>]
    /\ pc' = [pc EXCEPT ![c] = "returned"]
    /\ UNCHANGED <<calculator, request>>

\* Calculate without the floor of the taxable income at 0
CalculateWithoutTaxableIncomeFloor(c) ==
    /\ pc[c] = "called"
    /\ LET r == TaxResult(calculator, request[c][1])
           q == request[c][1]
           farm_losses_applied == IF q.advanced_deductions = None THEN 0
                                  ELSE q.advanced_deductions[1].farm_losses_applied
       IN  result' = [result EXCEPT ![c] =
               <<[r EXCEPT !.taxable_income =
                     r.net_income - (q.deductions.medical_expenses
                                     + q.deductions.charitable_donations
                                     + farm_losses_applied)]>>]
    /\ pc' = [pc EXCEPT ![c] = "returned"]
    /\ UNCHANGED <<calculator, request>>

\* Calculate with the losses of prior years subtracted before the 50% inclusion
CalculateIncludingAfterLosses(c) ==
    /\ pc[c] = "called"
    /\ LET q == request[c][1]
           r == TaxResult(calculator, q)
           without == calculate_total_income(calculator,
                          [q.income EXCEPT !.capital_gains = 0,
                                           !.capital_losses_current = 0,
                                           !.net_capital_losses_applied = 0])
           capital_gains_total ==
               Max(0, ((q.income.capital_gains - q.income.capital_losses_current
                        - q.income.net_capital_losses_applied) * 5) \div 10)
       IN  result' = [result EXCEPT ![c] =
               <<[r EXCEPT !.total_income = without + capital_gains_total]>>]
    /\ pc' = [pc EXCEPT ![c] = "returned"]
    /\ UNCHANGED <<calculator, request>>

\* Calculate without the floor of the tax after credits at 0
CalculateWithoutTaxFloor(c) ==
    /\ pc[c] = "called"
    /\ LET r == TaxResult(calculator, request[c][1])
       IN  result' = [result EXCEPT ![c] =
               <<[r EXCEPT !.total_tax_after_credits =
                     r.total_tax_before_credits - r.total_non_refundable_credits]>>]
    /\ pc' = [pc EXCEPT ![c] = "returned"]
    /\ UNCHANGED <<calculator, request>>

\* Calculate without the floor of the reduced age amount at 0
CalculateWithoutAgeAmountFloor(c) ==
    /\ pc[c] = "called"
    /\ LET q == request[c][1]
           r == TaxResult(calculator, q)
           fa == calculator.federal_amounts
           age_reduction == Max(0, r.net_income - fa.age_threshold) * 15
       IN  result' = [result EXCEPT ![c] =
               <<[r EXCEPT !.age_credit =
                     IF q.personal_info.age >= 65
                     THEN ((fa.age_amount * 100 - age_reduction) * fa.tuition_rate) \div 100
                     ELSE 0]>>]
    /\ pc' = [pc EXCEPT ![c] = "returned"]
    /\ UNCHANGED <<calculator, request>>

\* Calculate moving the amount to split out of the pension income when the
\* election names the spouse
CalculateSplittingPension(c) ==
    /\ pc[c] = "called"
    /\ LET q == request[c][1]
           split == IF q.pension_splitting # None /\ q.pension_splitting[1].split_with_spouse
                    THEN Min(q.pension_splitting[1].amount_to_split, q.income.private_pension)
                    ELSE 0
       IN  result' = [result EXCEPT ![c] =
               <<TaxResult(calculator, [q EXCEPT !.income.private_pension = @ - split])>>]
    /\ pc' = [pc EXCEPT ![c] = "returned"]
    /\ UNCHANGED <<calculator, request>>

\* Calculate setting the refundable credits off against the total payable
CalculateNettingRefundableCredits(c) ==
    /\ pc[c] = "called"
    /\ LET r == TaxResult(calculator, request[c][1])
       IN  result' = [result EXCEPT ![c] =
               <<[r EXCEPT !.total_payable = Max(0, @ - r.total_refundable_credits)]>>]
    /\ pc' = [pc EXCEPT ![c] = "returned"]
    /\ UNCHANGED <<calculator, request>>

Calculate(c) ==
    /\ pc[c] = "called"
    /\ result' = [result EXCEPT ![c] = <<TaxResult(calculator, request[c][1])>>]
    /\ pc' = [pc EXCEPT ![c] = "returned"]
    /\ UNCHANGED <<calculator, request>>

Return(c) ==
    /\ pc[c] = "returned"
    /\ pc' = [pc EXCEPT ![c] = "idle"]
    /\ request' = [request EXCEPT ![c] = None]
    /\ result' = [result EXCEPT ![c] = None]
    /\ UNCHANGED calculator

\* one caller, one call after the other, over all the inputs
Next ==
    \E c \in SingleCaller :
        \/ Submit(c, Requests)
        \/ Calculate(c)
        \/ Return(c)

Spec == Init /\ [][Next]_vars

\* several callers on the one calculator, their calls interleaved
NextShared ==
    \E c \in Callers :
        \/ Submit(c, SharedRequests)
        \/ Calculate(c)
        \/ Return(c)

SpecShared == Init /\ [][NextShared]_vars

\* ---------------------------------------------------------------------------
\* calculate_tax_on_brackets called on its own, over every bracket table the
\* calculator holds and the incomes around each bracket's ends.

BracketTables(self) ==
    { self.federal_brackets }
    \cup { self.provincial_data[p].brackets : p \in DOMAIN self.provincial_data }

Boundaries(brackets) ==
    { brackets[i].min_income : i \in 1..Len(brackets) }
    \cup { brackets[i].max_income : i \in { j \in 1..Len(brackets) : brackets[j].max_income # Inf } }

BracketIncomes(brackets) ==
    { -100, 40000, 250000 } \cup { b + d : b \in Boundaries(brackets), d \in {-1, 0, 1} }

SubmitBrackets(c) ==
    /\ pc[c] = "idle"
    /\ \E brackets \in BracketTables(calculator) :
          \E income \in BracketIncomes(brackets) :
             request' = [request EXCEPT ![c] = <<[income |-> income, brackets |-> brackets]>>]
    /\ pc' = [pc EXCEPT ![c] = "called"]
    /\ UNCHANGED <<calculator, result>>

TaxOnBrackets(c) ==
    /\ pc[c] = "called"
    /\ result' = [result EXCEPT ![c] =
                     <<calculate_tax_on_brackets(request[c][1].income, request[c][1].brackets)>>]
    /\ pc' = [pc EXCEPT ![c] = "returned"]
    /\ UNCHANGED <<calculator, request>>

NextBrackets ==
    \E c \in SingleCaller :
        \/ SubmitBrackets(c)
        \/ TaxOnBrackets(c)
        \/ Return(c)

SpecBrackets == Init /\ [][NextBrackets]_vars

Returned(c) == pc[c] = "returned"

TypeOK ==
    /\ pc \in [Callers -> {"idle", "called", "returned"}]
    /\ \A c \in Callers :
          /\ (pc[c] = "idle") => (request[c] = None /\ result[c] = None)
          /\ (pc[c] = "called") => (request[c] # None /\ result[c] = None)
          /\ (pc[c] = "returned") => (request[c] # None /\ result[c] # None)

Req(c) == request[c][1]

Res(c) == result[c][1]

\* ---------------------------------------------------------------------------
\* Properties.

\* the amounts of money in a call
OptionalAmounts(opt, fields) ==
    IF opt = None THEN {} ELSE { opt[1][f] : f \in fields }

MonetaryInputs(r) ==
    { r.income[f] : f \in DOMAIN r.income \ {"stock_option_deduction_eligible"} }
    \cup { r.deductions[f] : f \in DOMAIN r.deductions }
    \cup { r.personal_info.spouse_income }
    \cup OptionalAmounts(r.advanced_deductions, DOMAIN AdvancedDeductions)
    \cup OptionalAmounts(r.foreign_tax, DOMAIN ForeignTaxPaid)
    \cup OptionalAmounts(r.pension_splitting, {"eligible_pension_income", "amount_to_split"})

HasNegativeInput(r) == \E x \in MonetaryInputs(r) : x < 0

\* C1: a call with a province code that is not a key of provincial_data
\* returns no TaxResult (it fails with an error naming the code)
C1_UnknownProvinceRejected ==
    \A c \in Callers :
        (Returned(c) /\ Req(c).province \notin DOMAIN calculator.provincial_data)
            => result[c] = None

\* C2: a call in which a monetary input field is negative returns no
\* TaxResult (it is rejected with a validation error)
C2_NegativeInputRejected ==
    \A c \in Callers :
        (Returned(c) /\ HasNegativeInput(Req(c))) => result[c] = None

\* a bracket list that is ascending, contiguous and non-overlapping from 0,
\* with an unbounded last bracket
WellFormed(brackets) ==
    /\ Len(brackets) >= 1
    /\ brackets[1].min_income = 0
    /\ \A i \in 1..Len(brackets) : brackets[i].min_income < brackets[i].max_income
    /\ \A i \in 2..Len(brackets) : brackets[i].min_income = brackets[i - 1].max_income
    /\ brackets[Len(brackets)].max_income = Inf

\* C3: the federal bracket list and the bracket list of every province in
\* provincial_data are well formed
C3_BracketTablesWellFormed ==
    /\ WellFormed(calculator.federal_brackets)
    /\ \A p \in DOMAIN calculator.provincial_data :
          WellFormed(calculator.provincial_data[p].brackets)

\* C4: a calculator that was constructed never computes a result over a
\* malformed bracket table
C4_NoComputationOverMalformedTable ==
    \A c \in Callers :
        (Returned(c) /\ result[c] # None
           /\ Req(c).province \in DOMAIN calculator.provincial_data)
            => /\ WellFormed(calculator.federal_brackets)
               /\ WellFormed(calculator.provincial_data[Req(c).province].brackets)

WithEmploymentIncome(r, e) == [r EXCEPT !.income.employment_income = e]

\* the employment incomes a returned call is compared with
HigherEmploymentIncomes(e1) ==
    { e \in EmploymentIncomes : e >= e1 } \cup {e1 + 1, e1 + 100}

\* C5: for a registered province and non-negative inputs, total_payable of a
\* call is at most total_payable of the same call with a higher employment
\* income
C5_MonotoneInEmploymentIncome ==
    \A c \in Callers :
        (Returned(c) /\ Req(c).province \in Provinces /\ ~HasNegativeInput(Req(c)))
            => \A e2 \in HigherEmploymentIncomes(Req(c).income.employment_income) :
                  Res(c).total_payable
                      <= TaxResult(calculator, WithEmploymentIncome(Req(c), e2)).total_payable

\* a call to compare: tax is payable and a higher income is in the set
C5_Witness ==
    \E c \in Callers :
        /\ Returned(c) /\ Req(c).province = "NT" /\ ~HasNegativeInput(Req(c))
        /\ Req(c).income.employment_income = 230000
        /\ Req(c).foreign_tax # None
        /\ Res(c).total_payable > 0
        /\ Res(c).total_payable
              < TaxResult(calculator, WithEmploymentIncome(Req(c), 250000)).total_payable

ZeroIncomeAndDeductions(r) == r.income = IncomeDetails /\ r.deductions = DeductionsCredits

ClaimedCCA(r) == IF r.advanced_deductions = None THEN 0
                 ELSE r.advanced_deductions[1].capital_cost_allowance

ZeroResult(t) ==
    /\ t.total_income = 0 /\ t.net_income = 0 /\ t.taxable_income = 0
    /\ t.federal_tax = 0 /\ t.provincial_tax = 0 /\ t.amt_tax = 0
    /\ t.total_tax_after_credits = 0
    /\ t.cpp_contribution = 0 /\ t.ei_contribution = 0
    /\ t.total_payable = 0

\* C6 as stated: for a registered province and any personal info, all-zero
\* IncomeDetails and DeductionsCredits give zero incomes, zero taxes, zero
\* contributions and total_payable = 0
C6_ZeroIncomeIdentity ==
    \A c \in Callers :
        (Returned(c) /\ Req(c).province \in Provinces /\ ZeroIncomeAndDeductions(Req(c)))
            => ZeroResult(Res(c))

\* C6 amended: the same, for a claimed capital cost allowance of at most
\* 80,000 (half of it is the AMT base, exempt up to 40,000) and a
\* non-negative number of dependants
C6_ZeroIncomeIdentityUpToExemption ==
    \A c \in Callers :
        (Returned(c) /\ Req(c).province \in Provinces /\ ZeroIncomeAndDeductions(Req(c))
           /\ ClaimedCCA(Req(c)) <= 80000 /\ Req(c).personal_info.num_dependants >= 0)
            => ZeroResult(Res(c))

\* zero income, credits from fixed personal amounts, CCA at the exemption
C6_Witness ==
    \E c \in Callers :
        /\ Returned(c) /\ Req(c).province = "QC" /\ ZeroIncomeAndDeductions(Req(c))
        /\ ClaimedCCA(Req(c)) = 80000
        /\ Req(c).personal_info.num_dependants = 2
        /\ Res(c).total_non_refundable_credits > 0
        /\ Res(c).total_payable = 0

\* C7: every non-refundable credit of a returned TaxResult, and their total,
\* is at least 0
C7_CreditFloor ==
    \A c \in Callers :
        (Returned(c) /\ result[c] # None)
            => /\ Res(c).basic_personal_credit >= 0 /\ Res(c).spouse_credit >= 0
               /\ Res(c).dependant_credit >= 0 /\ Res(c).age_credit >= 0
               /\ Res(c).pension_credit >= 0 /\ Res(c).disability_credit >= 0
               /\ Res(c).tuition_credit >= 0 /\ Res(c).medical_credit >= 0
               /\ Res(c).charitable_credit >= 0 /\ Res(c).political_credit >= 0
               /\ Res(c).foreign_tax_credit >= 0
               /\ Res(c).total_non_refundable_credits >= 0

\* regular tax after credits, from the figures of a TaxResult
RegularTaxAfterCredits(t) ==
    Max(0, t.total_tax_before_credits - t.total_non_refundable_credits)

\* C8: total_tax_after_credits of a returned TaxResult is the greater of the
\* regular tax after credits and the AMT tax
C8_AMTDominance ==
    \A c \in Callers :
        (Returned(c) /\ result[c] # None)
            => /\ Res(c).total_tax_after_credits >= RegularTaxAfterCredits(Res(c))
               /\ Res(c).total_tax_after_credits >= Res(c).amt_tax
               /\ Res(c).total_tax_after_credits
                     = Max(RegularTaxAfterCredits(Res(c)), Res(c).amt_tax)

\* C9: two calls with the same province and the same input records have
\* equal TaxResults
C9_Deterministic ==
    \A c1, c2 \in Callers :
        (Returned(c1) /\ Returned(c2) /\ request[c1] = request[c2])
            => result[c1] = result[c2]

\* two callers hold the results of the same call with dependants
C9_Witness ==
    \E c1, c2 \in Callers :
        /\ c1 # c2 /\ Returned(c1) /\ Returned(c2) /\ request[c1] = request[c2]
        /\ Req(c1).personal_info.num_dependants > 0
        /\ Res(c1).total_refundable_credits > 0

\* C10: every step leaves the calculator as constructed; the step in which a
\* call returns leaves its input records unchanged and gives the result a
\* freshly constructed calculator gives; a caller's records change only in
\* its own steps
C10_NoSharedMutableState ==
    [][ /\ calculator' = setup_tax_data
        /\ \A c \in Callers :
              /\ (pc[c] = "called" /\ pc'[c] = "returned")
                    => /\ request'[c] = request[c]
                       /\ result'[c] = <<TaxResult(setup_tax_data, Req(c))>>
              /\ (pc'[c] = pc[c]) => (request'[c] = request[c] /\ result'[c] = result[c])
      ]_vars

\* a call returns while another caller holds the result of an earlier call
\* of a married filer
C10_Witness ==
    \E c1, c2 \in Callers :
        /\ c1 # c2 /\ Returned(c1) /\ Returned(c2)
        /\ Req(c1).personal_info.is_married /\ Req(c1).personal_info.spouse_income > 0
        /\ Req(c2).personal_info.is_married
        /\ Res(c2).spouse_credit = 0

\* ---------------------------------------------------------------------------
\* the highest rate of a bracket table
HighestRate(brackets) ==
    CHOOSE r \in { brackets[i].rate : i \in 1..Len(brackets) } :
        \A i \in 1..Len(brackets) : brackets[i].rate <= r

\* C11: the bracket tax has no jump at a bracket boundary.  For every bracket
\* table of the calculator and every boundary b between two brackets, the tax
\* at b + 1 exceeds the tax at b - 1 by at most the sum of the two adjacent
\* rates (eps of one dollar), and exceeds the tax at b by at most the highest
\* rate of the table.
C11_BracketContinuity ==
    \A c \in Callers :
        Returned(c) =>
            LET income == Req(c).income
                brackets == Req(c).brackets
            IN  \A i \in 1..(Len(brackets) - 1) :
                    LET b == brackets[i].max_income
                    IN  (income = b + 1) =>
                            /\ Res(c) - calculate_tax_on_brackets(b - 1, brackets)
                                  <= brackets[i].rate + brackets[i + 1].rate
                            /\ Res(c) - calculate_tax_on_brackets(b, brackets)
                                  <= HighestRate(brackets)

\* the federal tax one dollar into the second bracket
C11_Witness ==
    \E c \in Callers :
        /\ Returned(c)
        /\ Req(c).brackets = calculator.federal_brackets
        /\ Req(c).income = 55868
        /\ Res(c) = 55867 * 1500 + 2050

\* ---------------------------------------------------------------------------
\* the Ontario scenario: an unmarried filer with 60,000 of employment income,
\* no other income and no deductions
OntarioSixtyThousand(c) ==
    /\ Returned(c)
    /\ Req(c).province = "ON"
    /\ ~Req(c).personal_info.is_married
    /\ Req(c).income = [IncomeDetails EXCEPT !.employment_income = 60000]
    /\ Req(c).deductions = DeductionsCredits
    /\ Req(c).advanced_deductions \in {None, <<AdvancedDeductions>>}

\* C12 as stated: in the Ontario scenario the taxable income is 60,000 and the
\* federal tax is approximately 9,247.30 (here: within one dollar of it).
C12_FederalTaxAsStated ==
    \A c \in Callers :
        OntarioSixtyThousand(c) =>
            /\ Res(c).taxable_income = 60000
            /\ Res(c).federal_tax >= 92473000 - Scale
            /\ Res(c).federal_tax <= 92473000 + Scale

\* C12: in the Ontario scenario the taxable income is 60,000 and the federal
\* tax is 55,867 x 0.15 + (60,000 - 55,867) x 0.205, which is 9,227.315.
C12_FederalTaxOnSixtyThousand ==
    \A c \in Callers :
        OntarioSixtyThousand(c) =>
            /\ Res(c).taxable_income = 60000
            /\ Res(c).federal_tax = 55867 * 1500 + (60000 - 55867) * 2050
            /\ Res(c).federal_tax = 92273150

C12_Witness ==
    \E c \in Callers :
        /\ OntarioSixtyThousand(c)
        /\ Req(c).personal_info = PersonalInfo
        /\ Res(c).federal_tax = 92273150

\* ---------------------------------------------------------------------------
\* C13: for every net income and every amount of OAS benefits received (an
\* amount >= 0), the OAS clawback is min(benefits, max(0, net income - 86,912)
\* x 0.15); so it is 0 at or below the threshold, never more than the
\* benefits, and 1,963.20 for a net income of 100,000 with benefits of 7,362.
C13_OASClawback ==
    \A c \in Callers :
        (Returned(c) /\ Req(c).income.oas_benefits >= 0) =>
            LET net_income == Res(c).net_income
                oas_benefits == Req(c).income.oas_benefits
            IN  /\ Res(c).oas_clawback
                      = Min(oas_benefits * Scale, Max(0, net_income - 86912) * 1500)
                /\ (net_income <= 86912) => Res(c).oas_clawback = 0
                /\ Res(c).oas_clawback <= oas_benefits * Scale
                /\ (net_income = 100000 /\ oas_benefits = 7362)
                      => Res(c).oas_clawback = 19632000

C13_Witness ==
    \E c \in Callers :
        /\ Returned(c)
        /\ Res(c).net_income = 100000
        /\ Req(c).income.oas_benefits = 7362
        /\ Res(c).oas_clawback = 19632000

\* ---------------------------------------------------------------------------
\* C14: for donations d >= 0 the charitable credit is min(d, 200) x 0.15
\* + max(0, d - 200) x 0.29.  It is continuous at d = 200: the credit there is
\* 30, one dollar less gives 0.15 less and one dollar more gives 0.29 more.
\* Donations of 1,000 give a credit of 262.
C14_CharitableCredit ==
    \A c \in Callers :
        (Returned(c) /\ Req(c).deductions.charitable_donations >= 0) =>
            LET d == Req(c).deductions.charitable_donations
                credit == Res(c).charitable_credit
            IN  /\ credit = Min(d, 200) * 1500 + Max(0, d - 200) * 2900
                /\ (d = 199) => credit = 30 * Scale - 1500
                /\ (d = 200) => credit = 30 * Scale
                /\ (d = 201) => credit = 30 * Scale + 2900
                /\ (d = 1000) => credit = 262 * Scale

C14_Witness ==
    \E c \in Callers :
        /\ Returned(c)
        /\ Req(c).deductions.charitable_donations = 1000
        /\ Res(c).charitable_credit = 262 * Scale

\* ---------------------------------------------------------------------------
\* C15: the split income is taxed at the top marginal rate whatever its
\* bracket: for every split-income amount s > 0 the TOSI tax is s x 0.33, the
\* highest federal bracket rate.
C15_TOSIAtTopRate ==
    \A c \in Callers :
        (Returned(c) /\ Req(c).income.split_income_amount > 0) =>
            /\ HighestRate(calculator.federal_brackets) = 3300
            /\ Res(c).tosi_tax = Req(c).income.split_income_amount * 3300

\* ---------------------------------------------------------------------------
\* C16: for every employment income and every province, Quebec included, the
\* CPP/QPP contribution is max(0, min(employment income, 71,300) - 3,500) x
\* the plan's rate, capped at the maximum annual contribution of 4,055.25; so
\* it is >= 0 and never more than 4,055.25.
C16_ContributionCapped ==
    \A c \in Callers :
        Returned(c) =>
            LET employment_income == Req(c).income.employment_income
                rate == IF Req(c).province = "QC"
                        THEN calculator.qpp_rate ELSE calculator.cpp_rate
            IN  /\ Res(c).cpp_contribution
                      = Min(Max(0, Min(employment_income, 71300) - 3500) * rate, 40552500)
                /\ Res(c).cpp_contribution >= 0
                /\ Res(c).cpp_contribution <= 40552500

\* ---------------------------------------------------------------------------
\* C17 as stated: the average rate of the TaxResult is the quotient total
\* payable / net income when net income > 0, and 0 when net income is 0.
\* (total_payable is in 1/10000 dollar and net_income in dollars, so their
\* quotient is the rate in 1/10000.)
C17_AverageRateIsQuotient ==
    \A c \in Callers :
        Returned(c) =>
            /\ (Res(c).net_income > 0) =>
                   Res(c).average_tax_rate = Res(c).total_payable \div Res(c).net_income
            /\ (Res(c).net_income = 0) => Res(c).average_tax_rate = 0

\* C17: the average rate of the TaxResult is a percentage, 100 x total
\* payable / net income, when net income > 0, and 0 when net income is 0.
C17_AverageRateIsPercentage ==
    \A c \in Callers :
        Returned(c) =>
            /\ (Res(c).net_income > 0) =>
                   Res(c).average_tax_rate
                       = MulDiv(Res(c).total_payable, 100, Res(c).net_income)
            /\ (Res(c).net_income = 0) => Res(c).average_tax_rate = 0

\* a return with deductions, whose average rate is more than 10 percent
C17_Witness ==
    \E c \in Callers :
        /\ Returned(c)
        /\ Res(c).net_income > 0
        /\ Res(c).net_income < Res(c).total_income
        /\ Res(c).total_payable > 0
        /\ Res(c).average_tax_rate > 10 * Scale

\* ---------------------------------------------------------------------------
\* the sum over the brackets from bracket i on of
\* max(0, min(income, bracket.max) - bracket.min) x bracket.rate
RECURSIVE SumOverBrackets(_, _, _)
SumOverBrackets(income, brackets, i) ==
    IF i > Len(brackets) THEN 0
    ELSE Max(0, Min(income, brackets[i].max_income) - brackets[i].min_income)
             * brackets[i].rate
         + SumOverBrackets(income, brackets, i + 1)

\* C18: calculate_tax_on_brackets(income, brackets) returns the sum over all
\* the brackets of max(0, min(income, bracket.max) - bracket.min) x
\* bracket.rate; it is 0 for an income <= 0, and for every bracket table of
\* the calculator it is non-decreasing in the income.
C18_BracketTaxIsSum ==
    \A c \in Callers :
        Returned(c) =>
            LET income == Req(c).income
                brackets == Req(c).brackets
            IN  /\ Res(c) = SumOverBrackets(income, brackets, 1)
                /\ (income <= 0) => Res(c) = 0
                /\ \A higher \in BracketIncomes(brackets) :
                       (higher >= income) =>
                           Res(c) <= calculate_tax_on_brackets(higher, brackets)

\* the federal tax on 250,000, which has a part in each of the five brackets
C18_Witness ==
    \E c \in Callers :
        /\ Returned(c)
        /\ Req(c).brackets = calculator.federal_brackets
        /\ Req(c).income = 250000
        /\ Res(c) = 55867 * 1500 + 55866 * 2050 + 61472 * 2600 + 73547 * 2900 + 3248 * 3300

\* ---------------------------------------------------------------------------
\* the rate of the bracket that contains the income (min <= income < max), or
\* of the last bracket when no bracket contains it
RateOfContainingBracket(income, brackets) ==
    LET containing == { i \in 1..Len(brackets) :
                          /\ brackets[i].min_income <= income
                          /\ income < brackets[i].max_income }
    IN  IF containing # {}
        THEN brackets[CHOOSE i \in containing : TRUE].rate
        ELSE brackets[Len(brackets)].rate

\* C19: for a province of the table, the combined marginal rate of the
\* TaxResult is the federal plus the provincial marginal rate at the taxable
\* income, as a percentage.  Each is the rate of the bracket containing the
\* income, an income on a boundary taking the upper bracket's rate, or the
\* last bracket's rate above all the maxima.  In Ontario it is 29.65% at
\* 60,000 and at the federal boundary 55,867, 24.15% at the provincial
\* boundary 51,446 and 20.05% one dollar below it; in the Northwest
\* Territories it is 29% + 14.05% at the last bracket's maximum 239,229.
C19_CombinedMarginalRate ==
    \A c \in Callers :
        (Returned(c) /\ Req(c).province \in Provinces) =>
            LET taxable_income == Res(c).taxable_income
                province == Req(c).province
                rate == Res(c).marginal_tax_rate
            IN  /\ rate = 100 * ( RateOfContainingBracket(taxable_income,
                                       calculator.federal_brackets)
                                  + RateOfContainingBracket(taxable_income,
                                       calculator.provincial_data[province].brackets) )
                /\ (province = "ON" /\ taxable_income = 60000) => rate = 296500
                /\ (province = "ON" /\ taxable_income = 55867) => rate = 296500
                /\ (province = "ON" /\ taxable_income = 51446) => rate = 241500
                /\ (province = "ON" /\ taxable_income = 51445) => rate = 200500
                /\ (province = "NT" /\ taxable_income = 239229) => rate = 430500

\* a taxable income exactly on the federal boundary 55,867
C19_Witness ==
    \E c \in Callers :
        /\ Returned(c)
        /\ Req(c).province = "ON"
        /\ Res(c).taxable_income = 55867
        /\ Res(c).marginal_tax_rate = 296500

\* ---------------------------------------------------------------------------
\* C20: the TOSI tax is the federal bracket tax on the split-income amount
\* alone, from the lowest bracket up and whatever the taxable income (on
\* 100,000 it is 55,867 x 0.15 + 44,133 x 0.205); it is 0 when the
\* split-income amount is 0; and it is added on top of the federal tax:
\* total_tax_before_credits = federal_tax + provincial_tax
\* + provincial_surtax + tosi_tax.
C20_TOSIOnSplitIncomeAlone ==
    \A c \in Callers :
        Returned(c) =>
            LET split_income_amount == Req(c).income.split_income_amount
            IN  /\ Res(c).tosi_tax
                      = SumOverBrackets(split_income_amount, calculator.federal_brackets, 1)
                /\ (split_income_amount = 0) => Res(c).tosi_tax = 0
                /\ (split_income_amount = 100000)
                      => Res(c).tosi_tax = 55867 * 1500 + 44133 * 2050
                /\ Res(c).total_tax_before_credits
                      = Res(c).federal_tax + Res(c).provincial_tax
                        + Res(c).provincial_surtax + Res(c).tosi_tax

\* split income of 100,000 beside a taxable income of 60,000
C20_Witness ==
    \E c \in Callers :
        /\ Returned(c)
        /\ Req(c).income.split_income_amount = 100000
        /\ Res(c).taxable_income = 60000
        /\ Res(c).tosi_tax = 174273150
        /\ Res(c).total_tax_before_credits > Res(c).federal_tax + Res(c).tosi_tax

\* ---------------------------------------------------------------------------
\* the AdvancedDeductions record a call computes with
AdvancedOf(r) ==
    IF r.advanced_deductions = None THEN AdvancedDeductions ELSE r.advanced_deductions[1]

\* the deductions from total income: RRSP, union dues, childcare, alimony
\* paid, the stock-option deduction (half the benefit if the eligibility flag
\* is set, 0 otherwise), business expenses and non-capital losses applied
DeductionsFromTotalIncome(r) ==
    r.deductions.rrsp_contribution + r.deductions.union_dues
    + r.deductions.childcare_expenses + r.deductions.alimony_paid
    + (IF r.income.stock_option_deduction_eligible
       THEN r.income.stock_option_benefit \div 2 ELSE 0)
    + AdvancedOf(r).business_expenses + AdvancedOf(r).non_capital_losses_applied

\* C21: net income = max(0, total income - the deductions from total income),
\* the stock-option deduction being half the benefit if the eligibility flag
\* is set and 0 otherwise; net income is never negative, also when the
\* deductions exceed the total income.
C21_NetIncome ==
    \A c \in Callers :
        Returned(c) =>
            /\ Res(c).net_income
                  = Max(0, Res(c).total_income - DeductionsFromTotalIncome(Req(c)))
            /\ Res(c).net_income >= 0

\* deductions of 10,000 against a total income of 3,000
C21_Witness ==
    \E c \in Callers :
        /\ Returned(c)
        /\ Res(c).total_income = 3000
        /\ DeductionsFromTotalIncome(Req(c)) = 10000
        /\ Res(c).net_income = 0

\* ---------------------------------------------------------------------------
\* C22: taxable income = max(0, net income - (medical expenses + charitable
\* donations + farm losses applied)); and in every TaxResult computed from
\* non-negative inputs 0 <= taxable income <= net income <= total income.
C22_TaxableIncome ==
    \A c \in Callers :
        Returned(c) =>
            /\ Res(c).taxable_income
                  = Max(0, Res(c).net_income
                           - (Req(c).deductions.medical_expenses
                              + Req(c).deductions.charitable_donations
                              + AdvancedOf(Req(c)).farm_losses_applied))
            /\ ~HasNegativeInput(Req(c)) =>
                  /\ 0 <= Res(c).taxable_income
                  /\ Res(c).taxable_income <= Res(c).net_income
                  /\ Res(c).net_income <= Res(c).total_income

\* medical expenses and donations of 4,000 against a net income of 3,000
C22_Witness ==
    \E c \in Callers :
        /\ Returned(c)
        /\ ~HasNegativeInput(Req(c))
        /\ Res(c).net_income = 3000
        /\ Req(c).deductions.medical_expenses + Req(c).deductions.charitable_donations = 4000
        /\ Res(c).taxable_income = 0

\* ---------------------------------------------------------------------------
\* the income record without its capital gains and losses
WithoutCapitalGains(income) ==
    [income EXCEPT !.capital_gains = 0, !.capital_losses_current = 0,
                   !.net_capital_losses_applied = 0]

\* what the capital gains and losses of a returned call add to its total income
CapitalGainsContribution(c) ==
    Res(c).total_income
    - calculate_total_income(calculator, WithoutCapitalGains(Req(c).income))

\* C23: the capital gains add max(0, max(0, (gains - current-year losses) x
\* 0.5) - net capital losses applied) to the total income: the 50% inclusion
\* comes before the losses of prior years are subtracted, the contribution is
\* never negative, and current-year losses above the gains do not reduce the
\* other income.
C23_CapitalGainsContribution ==
    \A c \in Callers :
        Returned(c) =>
            LET gains == Req(c).income.capital_gains
                losses == Req(c).income.capital_losses_current
                applied == Req(c).income.net_capital_losses_applied
            IN  /\ CapitalGainsContribution(c)
                      = Max(0, Max(0, (gains - losses) \div 2) - applied)
                /\ CapitalGainsContribution(c) >= 0
                /\ (losses >= gains) => CapitalGainsContribution(c) = 0

\* gains 40,000, losses 10,000, 5,000 applied from prior years:
\* 15,000 - 5,000, and not half of 25,000
C23_Witness ==
    \E c \in Callers :
        /\ Returned(c)
        /\ Req(c).income.capital_gains = 40000
        /\ Req(c).income.capital_losses_current = 10000
        /\ Req(c).income.net_capital_losses_applied = 5000
        /\ CapitalGainsContribution(c) = 10000

\* ---------------------------------------------------------------------------
\* the non-refundable credits of a TaxResult, the foreign tax credit included
SumOfNonRefundableCredits(r) ==
    r.basic_personal_credit + r.spouse_credit + r.dependant_credit + r.age_credit
    + r.pension_credit + r.disability_credit + r.tuition_credit + r.medical_credit
    + r.charitable_credit + r.political_credit + r.foreign_tax_credit

\* C24: the regular tax after credits is max(0, (federal + provincial + surtax
\* + TOSI tax) - the sum of all non-refundable credits, the foreign tax credit
\* included): the credits bring the tax down to 0 at most, never below,
\* however large they are.
C24_TaxAfterCreditsFloor ==
    \A c \in Callers :
        Returned(c) =>
            /\ Res(c).total_tax_after_credits
                  = Max(0, (Res(c).federal_tax + Res(c).provincial_tax
                            + Res(c).provincial_surtax + Res(c).tosi_tax)
                           - SumOfNonRefundableCredits(Res(c)))
            /\ Res(c).total_tax_after_credits >= 0

\* credits above a positive tax
C24_Witness ==
    \E c \in Callers :
        /\ Returned(c)
        /\ Res(c).federal_tax + Res(c).provincial_tax > 0
        /\ SumOfNonRefundableCredits(Res(c)) > Res(c).total_tax_before_credits
        /\ Res(c).total_tax_after_credits = 0

\* ---------------------------------------------------------------------------
\* the same income and claimed CCA in another province, with no deductions
\* and the default personal information
WithIncomeOnly(r) ==
    Call("AB", PersonalInfo, r.income, DeductionsCredits,
         <<[AdvancedDeductions EXCEPT
               !.capital_cost_allowance = AdvancedOf(r).capital_cost_allowance]>>,
         None, None)

\* C25: the AMT tax is max(0, total income + 0.5 x stock-option benefit + 0.5 x
\* claimed CCA - 40,000) x 0.15.  It is the same whatever the deductions, the
\* credits and the province, it is 0 when the alternate base is at most the
\* exemption, and the AMT carryforward is always 0.
C25_AlternativeMinimumTax ==
    \A c \in Callers :
        Returned(c) =>
            LET base == Res(c).total_income
                        + Req(c).income.stock_option_benefit \div 2
                        + AdvancedOf(Req(c)).capital_cost_allowance \div 2
            IN  /\ Res(c).amt_tax = Max(0, base - 40000) * 1500
                /\ (base <= 40000) => Res(c).amt_tax = 0
                /\ Res(c).amt_tax = TaxResult(calculator, WithIncomeOnly(Req(c))).amt_tax
                /\ Res(c).amt_carryforward = 0

\* AMT of a call with an RRSP deduction, outside Alberta
C25_Witness ==
    \E c \in Callers :
        /\ Returned(c)
        /\ Req(c).province = "QC"
        /\ Req(c).deductions.rrsp_contribution = 10000
        /\ Res(c).total_income = 89800
        /\ Res(c).amt_tax = 49800 * 1500

\* ---------------------------------------------------------------------------
\* the per-child amounts of the children from child i on: 7,787 under age 6,
\* 6,570 at or above
RECURSIVE PerChildAmounts(_, _)
PerChildAmounts(dependant_ages, i) ==
    IF i > Len(dependant_ages) THEN 0
    ELSE (IF dependant_ages[i] < 6 THEN 7787 ELSE 6570)
         + PerChildAmounts(dependant_ages, i + 1)

\* the reduction of the child benefit: the first rate on the net income
\* between the two thresholds, the second rate on the net income above the
\* second threshold
TieredReduction(self, net_income) ==
    IF net_income <= self.ccb_threshold THEN 0
    ELSE IF net_income <= self.ccb_second_threshold
    THEN (net_income - self.ccb_threshold) * self.ccb_reduction_rate1
    ELSE (self.ccb_second_threshold - self.ccb_threshold) * self.ccb_reduction_rate1
         + (net_income - self.ccb_second_threshold) * self.ccb_reduction_rate2

\* C26: the list of dependant ages has num_dependants entries, and the child
\* benefit is the sum of the per-child amounts of these children, reduced by
\* the tiered reduction on the net income over the threshold (another rate
\* above the second threshold) and floored at 0; it is 0 with no dependants.
C26_ChildBenefit ==
    \A c \in Callers :
        (Returned(c) /\ ~HasNegativeInput(Req(c))) =>
            LET personal_info == Req(c).personal_info
            IN  /\ Len(personal_info.dependant_ages) = personal_info.num_dependants
                /\ Res(c).canada_child_benefit
                      = Max(0, PerChildAmounts(personal_info.dependant_ages, 1) * Scale
                               - TieredReduction(calculator, Res(c).net_income))
                /\ (personal_info.num_dependants = 0) => Res(c).canada_child_benefit = 0

\* ---------------------------------------------------------------------------
\* C27: the age credit is 0 under age 65; from age 65 it is max(0, 8,790 -
\* max(0, net income - 42,335) x 0.15) x 0.15.  So it is the full 8,790 x 0.15
\* at or below the threshold, exactly 0 and not negative once the reduction
\* reaches the base amount (net income 100,935), and it does not increase when
\* the net income increases.
C27_AgeCredit ==
    \A c \in Callers :
        Returned(c) =>
            LET age == Req(c).personal_info.age
                net_income == Res(c).net_income
            IN  /\ (age < 65) => Res(c).age_credit = 0
                /\ (age >= 65) =>
                      /\ Res(c).age_credit
                            = (Max(0, 8790 * Scale - Max(0, net_income - 42335) * 1500)
                                  * 15) \div 100
                      /\ (net_income <= 42335) => Res(c).age_credit = 8790 * 1500
                      /\ (net_income >= 100935) => Res(c).age_credit = 0
                /\ Res(c).age_credit >= 0
                /\ \A e2 \in HigherEmploymentIncomes(Req(c).income.employment_income) :
                      TaxResult(calculator, WithEmploymentIncome(Req(c), e2)).age_credit
                          <= Res(c).age_credit

\* age 70, one dollar before the credit is gone
C27_Witness ==
    \E c \in Callers :
        /\ Returned(c)
        /\ Req(c).personal_info.age = 70
        /\ Res(c).net_income = 100934
        /\ Res(c).age_credit = 225

\* ---------------------------------------------------------------------------
\* the pension-splitting arguments a call is compared under
PensionSplittingElections ==
    { None, <<PensionSplitting>>,
      <<[PensionSplitting EXCEPT !.eligible_pension_income = 40000,
                                 !.amount_to_split = 20000,
                                 !.split_with_spouse = TRUE]>>,
      <<[PensionSplitting EXCEPT !.eligible_pension_income = 40000,
                                 !.amount_to_split = 10000]>>,
      <<[PensionSplitting EXCEPT !.eligible_pension_income = 10000,
                                 !.amount_to_split = 5000,
                                 !.split_with_spouse = TRUE]>> }

SurtaxOver(provincial_tax, rate, threshold) ==
    MulDiv(Max(0, provincial_tax - threshold * Scale), rate, 100)

\* the tiers of a surtax rule from tier i on, each on the provincial tax over
\* its own threshold
RECURSIVE SumOfSurtaxTiers(_, _, _)
SumOfSurtaxTiers(provincial_tax, surtax_info, i) ==
    IF i > Len(surtax_info) THEN 0
    ELSE SurtaxOver(provincial_tax, surtax_info[i].rate, surtax_info[i].threshold)
         + SumOfSurtaxTiers(provincial_tax, surtax_info, i + 1)

\* C29: the provincial surtax is computed on the provincial bracket tax only.
\* It is 0 where there is no surtax rule; where there is one it is rate1 x
\* max(0, provincial tax - threshold1) plus, with a second tier, rate2 x
\* max(0, provincial tax - threshold2), the tiers adding up: in Ontario 20%
\* over 5,554 plus 36% over 7,108, in Prince Edward Island 10% over 12,500.
\* It is never negative and does not decrease when the taxable income
\* increases.
C29_ProvincialSurtax ==
    \A c \in Callers :
        Returned(c) =>
            LET province == Req(c).province
                provincial_tax == Res(c).provincial_tax
                surtax == Res(c).provincial_surtax
            IN  /\ (province \notin Provinces) => surtax = 0
                /\ (province \in Provinces) =>
                      /\ (calculator.provincial_data[province].surtax = << >>) => surtax = 0
                      /\ surtax = SumOfSurtaxTiers(provincial_tax,
                                      calculator.provincial_data[province].surtax, 1)
                /\ (province \notin {"ON", "PE"}) => surtax = 0
                /\ (province = "ON") =>
                      surtax = SurtaxOver(provincial_tax, 20, 5554)
                               + SurtaxOver(provincial_tax, 36, 7108)
                /\ (province = "PE") => surtax = SurtaxOver(provincial_tax, 10, 12500)
                /\ surtax >= 0
                /\ \A e2 \in HigherEmploymentIncomes(Req(c).income.employment_income) :
                      LET higher == TaxResult(calculator, WithEmploymentIncome(Req(c), e2))
                      IN  (higher.taxable_income >= Res(c).taxable_income)
                              => higher.provincial_surtax >= surtax

\* Ontario tax above both thresholds
C29_Witness ==
    \E c \in Callers :
        /\ Returned(c)
        /\ Req(c).province = "ON"
        /\ Res(c).provincial_tax > 7108 * Scale
        /\ Res(c).provincial_surtax > SurtaxOver(Res(c).provincial_tax, 20, 5554)
        /\ Res(c).provincial_surtax > SurtaxOver(Res(c).provincial_tax, 36, 7108)

\* ---------------------------------------------------------------------------
\* the assembly of the result: total_payable = max(regular tax after credits,
\* AMT tax) + CPP/QPP contribution + EI contribution + total clawbacks, with no
\* refundable credit in it, and net_income_after_tax = net_income -
\* total_payable + total_refundable_credits
ResultAssembled(r) ==
    /\ r.total_payable = Max(r.total_tax_after_credits, r.amt_tax)
                         + r.cpp_contribution + r.ei_contribution + r.total_clawbacks
    /\ r.net_income_after_tax
          = Dollars(r.net_income, r.total_refundable_credits - r.total_payable)
    /\ r.total_refundable_credits
          = r.gst_hst_credit + r.canada_child_benefit + r.canada_workers_benefit
            + r.climate_action_incentive + r.working_income_tax_benefit

\* C30 as stated: the result is assembled so, total_payable is never negative,
\* and for non-negative inputs net_income_after_tax is never negative.
C30_AssemblyNeverNegative ==
    \A c \in Callers :
        Returned(c) =>
            /\ ResultAssembled(Res(c))
            /\ Res(c).total_payable >= 0
            /\ ~HasNegativeInput(Req(c)) => Res(c).net_income_after_tax.dollars >= 0

\* C30: the result is assembled so; the refundable credits are paid out in
\* net_income_after_tax and do not reduce total_payable, also when they
\* exceed it; for non-negative inputs total_payable is never negative and
\* net_income_after_tax is at least net_income - total_payable, which is
\* negative when the tax exceeds the net income.
C30_ResultAssembly ==
    \A c \in Callers :
        Returned(c) =>
            /\ ResultAssembled(Res(c))
            /\ ~HasNegativeInput(Req(c)) =>
                  /\ Res(c).total_payable >= 0
                  /\ Res(c).total_refundable_credits >= 0
                  /\ LET without_credits == Dollars(Res(c).net_income, - Res(c).total_payable)
                     IN  \/ Res(c).net_income_after_tax.dollars > without_credits.dollars
                         \/ /\ Res(c).net_income_after_tax.dollars = without_credits.dollars
                            /\ Res(c).net_income_after_tax.frac >= without_credits.frac

\* refundable credits above the total payable: they are paid out in full
C30_Witness ==
    \E c \in Callers :
        /\ Returned(c)
        /\ ~HasNegativeInput(Req(c))
        /\ Res(c).total_payable > 0
        /\ Res(c).total_refundable_credits > Res(c).total_payable
        /\ Res(c).net_income_after_tax.dollars >= Res(c).net_income

====
